---------------------------- MODULE Spec2Model ----------------------------
(***************************************************************************)
(* The protocol orchestrator of octoprint.comm.protocol: class Protocol,   *)
(* its state setter, its public operations and the transport and job       *)
(* listener callbacks it implements.  Transports and jobs are external     *)
(* collaborators; they are modelled by their listener registry, their own  *)
(* state, and the requests the orchestrator sends them.                    *)
(***************************************************************************)
EXTENDS Naturals, Sequences, FiniteSets

(* ------------------------------ bounds -------------------------------- *)

NumTransports == 2

NumJobs == 2

(* ----------------------------- constants ------------------------------ *)

None == 0

CONNECTING == "connecting"

CONNECTED == "connected"

DISCONNECTING == "disconnecting"

DISCONNECTED == "disconnected"

PRINTING == "printing"

CANCELLING == "cancelling"

PAUSING == "pausing"

PAUSED == "paused"

ERROR == "error"

DISCONNECTED_WITH_ERROR == "disconnected_with_error"

ProtocolState ==
    {CONNECTING, CONNECTED, DISCONNECTING, DISCONNECTED, PRINTING,
     CANCELLING, PAUSING, PAUSED, ERROR, DISCONNECTED_WITH_ERROR}

TransportState ==
    {"disconnected", "connecting", "connected", "disconnected_with_error"}

JobState == {"idle", "queued", "running"}

Transports == 1..NumTransports

Jobs == 1..NumJobs

\* the states for which the concrete protocol defines _on_state_<state>;
\* getattr answers None for every other state
DefinedHooks == {CONNECTED, DISCONNECTED}

\* outcomes of a call: normal return, or the exception that left it
OK == "ok"

AlreadyConnected == "ProtocolAlreadyConnectedError"

NotConnected == "ProtocolNotConnectedError"

IncompatibleJob == "ValueError"

AttributeError == "AttributeError"

VARIABLES
    state,      \* Protocol._state
    job,        \* Protocol._job (None or a job)
    transport,  \* Protocol._transport (None or a transport)
    tReg,       \* transports whose listener registry holds the protocol
    jReg,       \* jobs whose listener registry holds the protocol
    tState,     \* each transport's own state
    jState      \* each job's progress as its listener, the protocol, can
                \* still see it: the callbacks the job has yet to deliver

vars == <<state, job, transport, tReg, jReg, tState, jState>>

(* --------------------------- the machine ------------------------------ *)

\* the program state a call starts from, with an empty trace
Cur ==
    [state |-> state, job |-> job, transport |-> transport, tReg |-> tReg,
     jReg |-> jReg, tState |-> tState, jState |-> jState,
     events |-> << >>, result |-> OK]

\* one entry of the trace: kind k, states a and b, transport or job n, flag f
Ev(k, a, b, n, f) == [k |-> k, a |-> a, b |-> b, n |-> n, f |-> f]

\* the entry is appended with st, the stored protocol state at that moment
Emit(m, e) ==
    [m EXCEPT !.events =
        Append(@, [k |-> e.k, a |-> e.a, b |-> e.b, n |-> e.n, f |-> e.f,
                   st |-> m.state])]

\* an exception leaves the call; what was done before it stays done
Raise(m, exc) == [m EXCEPT !.result = exc]

\* ListenerAware.notify_listeners: the protocol's own observers see the event
notify_listeners(m, e) == Emit(m, e)

\* process_protocol_log: the message reaches the observers as on_protocol_log
process_protocol_log(m, what, a, b, n) ==
    notify_listeners(m, Ev("on_protocol_log:" \o what, a, b, n, FALSE))

LogKinds ==
    {"on_protocol_log:state_changed", "on_protocol_log:connecting",
     "on_protocol_log:disconnecting"}

(* ------------------- collaborators: transport, job -------------------- *)

transport_register_listener(m, t) ==
    Emit([m EXCEPT !.tReg = @ \cup {t}],
         Ev("transport.register_listener", "", "", t, FALSE))

transport_unregister_listener(m, t) ==
    Emit([m EXCEPT !.tReg = @ \ {t}],
         Ev("transport.unregister_listener", "", "", t, FALSE))

\* the request is dispatched; completion is signalled later by a callback
transport_connect(m, t) ==
    Emit([m EXCEPT !.tState[t] = "connecting"],
         Ev("transport.connect", "", "", t, FALSE))

transport_disconnect(m, t) ==
    Emit([m EXCEPT !.tState[t] = "disconnected"],
         Ev("transport.disconnect", "", "", t, FALSE))

job_register_listener(m, j) ==
    Emit([m EXCEPT !.jReg = @ \cup {j}],
         Ev("job.register_listener", "", "", j, FALSE))

\* a job the protocol no longer listens to has nothing left to tell it
job_unregister_listener(m, j) ==
    Emit([m EXCEPT !.jReg = @ \ {j}, !.jState[j] = "idle"],
         Ev("job.unregister_listener", "", "", j, FALSE))

job_process(m, j) ==
    Emit([m EXCEPT !.jState[j] = "queued"],
         Ev("job.process", "", "", j, FALSE))

(* ------------------------ Protocol: the setter ------------------------ *)

\* variant: the setter without its old = new early return
state_setter_always_notifying(m, new_state) ==
    LET old_state == m.state
        m1 == [m EXCEPT !.state = new_state]
        m2 == IF new_state \in DefinedHooks
              THEN Emit(m1, Ev("hook", old_state, new_state, None, FALSE))
              ELSE m1
        m3 == process_protocol_log(m2, "state_changed", old_state, new_state,
                                   None)
    IN  notify_listeners(
            m3, Ev("on_protocol_state", old_state, new_state, None, FALSE))

\* variant: the observers notified of the change before the hook and the log
state_setter_notifying_first(m, new_state) ==
    LET old_state == m.state
        m1 == [m EXCEPT !.state = new_state]
        m2 == notify_listeners(
                  m1,
                  Ev("on_protocol_state", old_state, new_state, None, FALSE))
        m3 == IF new_state \in DefinedHooks
              THEN Emit(m2, Ev("hook", old_state, new_state, None, FALSE))
              ELSE m2
    IN  IF old_state = new_state
        THEN m
        ELSE process_protocol_log(m3, "state_changed", old_state, new_state,
                                  None)

state_setter(m, new_state) ==
    LET old_state == m.state
        m1 == [m EXCEPT !.state = new_state]
        m2 == IF new_state \in DefinedHooks
              THEN Emit(m1, Ev("hook", old_state, new_state, None, FALSE))
              ELSE m1
        m3 == process_protocol_log(m2, "state_changed", old_state, new_state,
                                   None)
    IN  IF old_state = new_state
        THEN m
        ELSE notify_listeners(
                 m3, Ev("on_protocol_state", old_state, new_state, None, FALSE))

(* --------------------- Protocol: public operations -------------------- *)

\* variant: connect refusing only in Connecting and Connected
connect_during_job(m, t) ==
    IF m.state \in {CONNECTING, CONNECTED}
    THEN Raise(m, AlreadyConnected)
    ELSE LET m1 == process_protocol_log(m, "connecting", "", "", t)
             m2 == [m1 EXCEPT !.transport = t]
             m3 == transport_register_listener(m2, m2.transport)
             m4 == IF m3.tState[m3.transport] = "disconnected"
                   THEN transport_connect(m3, m3.transport)
                   ELSE m3
         IN  state_setter(m4, CONNECTING)

\* variant: connect going straight to Connected
connect_straight_to_connected(m, t) ==
    IF m.state \notin {DISCONNECTED, DISCONNECTED_WITH_ERROR}
    THEN Raise(m, AlreadyConnected)
    ELSE LET m1 == process_protocol_log(m, "connecting", "", "", t)
             m2 == [m1 EXCEPT !.transport = t]
             m3 == transport_register_listener(m2, m2.transport)
             m4 == IF m3.tState[m3.transport] = "disconnected"
                   THEN transport_connect(m3, m3.transport)
                   ELSE m3
         IN  state_setter(m4, CONNECTED)

connect(m, t) ==
    IF m.state \notin {DISCONNECTED, DISCONNECTED_WITH_ERROR}
    THEN Raise(m, AlreadyConnected)
    ELSE LET m1 == process_protocol_log(m, "connecting", "", "", t)
             m2 == [m1 EXCEPT !.transport = t]
             m3 == transport_register_listener(m2, m2.transport)
             m4 == IF m3.tState[m3.transport] = "disconnected"
                   THEN transport_connect(m3, m3.transport)
                   ELSE m3
         IN  state_setter(m4, CONNECTING)

\* variant: disconnect not refusing in DisconnectedWithError
disconnect_after_error(m, error) ==
    IF m.state \in {DISCONNECTED, DISCONNECTING}
    THEN Raise(m, NotConnected)
    ELSE LET m1 == state_setter(m, DISCONNECTING)
             m2 == process_protocol_log(m1, "disconnecting", "", "",
                                        m1.transport)
             m3 == transport_unregister_listener(m2, m2.transport)
             m4 == IF m3.tState[m3.transport] = "connected"
                   THEN transport_disconnect(m3, m3.transport)
                   ELSE m3
         IN  IF m2.transport = None
             THEN Raise(m2, AttributeError)
             ELSE IF error
                  THEN state_setter(m4, DISCONNECTED_WITH_ERROR)
                  ELSE state_setter(m4, DISCONNECTED)

disconnect(m, error) ==
    IF m.state \in {DISCONNECTED, DISCONNECTED_WITH_ERROR, DISCONNECTING}
    THEN Raise(m, NotConnected)
    ELSE LET m1 == state_setter(m, DISCONNECTING)
             m2 == process_protocol_log(m1, "disconnecting", "", "",
                                        m1.transport)
             m3 == transport_unregister_listener(m2, m2.transport)
             m4 == IF m3.tState[m3.transport] = "connected"
                   THEN transport_disconnect(m3, m3.transport)
                   ELSE m3
         IN  IF m2.transport = None
             THEN Raise(m2, AttributeError)
             ELSE IF error
                  THEN state_setter(m4, DISCONNECTED_WITH_ERROR)
                  ELSE state_setter(m4, DISCONNECTED)

\* variant: process binding the job before asking can_process
process_binding_first(m, j, can_process) ==
    LET m1 == [m EXCEPT !.job = j]
    IN  IF ~can_process
        THEN Raise(m1, IncompatibleJob)
        ELSE job_process(job_register_listener(m1, m1.job), m1.job)

\* can_process is what job.can_process(self) answered
process(m, j, can_process) ==
    IF ~can_process
    THEN Raise(m, IncompatibleJob)
    ELSE LET m1 == [m EXCEPT !.job = j]
             m2 == job_register_listener(m1, m1.job)
         IN  job_process(m2, m2.job)

\* variant: pause_processing not looking at the state
pause_processing_any_state(m) ==
    IF m.job = None
    THEN m
    ELSE state_setter(m, PAUSED)

\* variant: pausing passing through the reserved Pausing state
pause_processing_to_pausing(m) ==
    IF m.job = None \/ m.state # PRINTING
    THEN m
    ELSE state_setter(m, PAUSING)

pause_processing(m) ==
    IF m.job = None \/ m.state # PRINTING
    THEN m
    ELSE state_setter(m, PAUSED)

resume_processing(m) ==
    IF m.job = None \/ m.state # PAUSED
    THEN m
    ELSE state_setter(m, PRINTING)

(* ------------------------ Protocol: callbacks ------------------------- *)

on_job_started(m, j) == state_setter(m, PRINTING)

\* the job unregistered is the bound one, self._job, whichever job signalled
job_processed(m, j) ==
    IF m.job = None
    THEN Raise(m, AttributeError)
    ELSE state_setter(job_unregister_listener(m, m.job), CONNECTED)

on_job_done(m, j) == job_processed(m, j)

on_job_cancelled(m, j) == job_processed(m, j)

\* variant: a failed job leaving the protocol in Error
on_job_failed_to_error(m, j) ==
    IF m.job = None
    THEN Raise(m, AttributeError)
    ELSE state_setter(job_unregister_listener(m, m.job), ERROR)

on_job_failed(m, j) == job_processed(m, j)

\* variant: the callback dropping its error indicator
on_transport_disconnected_clean(m, t, error) == disconnect(m, FALSE)

on_transport_disconnected(m, t, error) == disconnect(m, error # None)

\* declared by TransportListener; the orchestrator leaves Connecting on it
on_transport_connected(m, t) ==
    IF m.state = CONNECTING
    THEN state_setter(m, CONNECTED)
    ELSE m

\* job.cancel: the job may deliver its termination callback to its listeners
\* before cancel returns (sync) or at some later point
job_cancel(m, j, error, sync) ==
    LET m1 == Emit(m, Ev("job.cancel", "", "", j, error))
    IN  IF sync /\ j \in m1.jReg /\ m1.jState[j] # "idle"
        THEN on_job_cancelled([m1 EXCEPT !.jState[j] = "idle"], j)
        ELSE m1

\* variant: cancel_processing not passing its error flag on
cancel_processing_without_flag(m, error, sync) ==
    LET m1 == IF m.job # None /\ m.state \in {PRINTING, PAUSED}
              THEN job_cancel(m, m.job, FALSE, sync)
              ELSE m
    IN  IF m1.result # OK THEN m1 ELSE state_setter(m1, CONNECTED)

cancel_processing(m, error, sync) ==
    LET m1 == IF m.job # None /\ m.state \in {PRINTING, PAUSED}
              THEN job_cancel(m, m.job, error, sync)
              ELSE m
    IN  IF m1.result # OK THEN m1 ELSE state_setter(m1, CONNECTED)

(* ------------- collaborators signalling the protocol ------------------ *)

\* a transport that was asked to connect completes and tells its listeners
transport_connected(m, t) ==
    LET m1 == [m EXCEPT !.tState[t] = "connected"]
    IN  IF t \in m1.tReg THEN on_transport_connected(m1, t) ELSE m1

\* a transport loses its connection on its own and tells its listeners;
\* error is the indicator the callback carries (None when there is none)
transport_lost(m, t, error) ==
    LET m1 == [m EXCEPT !.tState[t] =
                  IF error # None THEN "disconnected_with_error"
                  ELSE "disconnected"]
    IN  IF t \in m1.tReg THEN on_transport_disconnected(m1, t, error) ELSE m1

job_started(m, j) == on_job_started([m EXCEPT !.jState[j] = "running"], j)

job_done(m, j) == on_job_done([m EXCEPT !.jState[j] = "idle"], j)

job_cancelled(m, j) == on_job_cancelled([m EXCEPT !.jState[j] = "idle"], j)

job_failed(m, j) == on_job_failed([m EXCEPT !.jState[j] = "idle"], j)

\* what a transport may signal, and what a job may still tell the protocol
MayConnect(t) == tState[t] = "connecting"

MayDrop(t) == tState[t] \in {"connecting", "connected"}

MayStart(j) == j \in jReg /\ jState[j] = "queued"

MayEnd(j) == j \in jReg /\ jState[j] # "idle"

TransportErrors == {None, 1}

(* ----------------------------- actions -------------------------------- *)

\* the program state after a call is the machine the call produced, also
\* when an exception left the call half way
Commit(m) ==
    /\ state' = m.state
    /\ job' = m.job
    /\ transport' = m.transport
    /\ tReg' = m.tReg
    /\ jReg' = m.jReg
    /\ tState' = m.tState
    /\ jState' = m.jState

Init ==
    /\ state = DISCONNECTED
    /\ job = None
    /\ transport = None
    /\ tReg = {}
    /\ jReg = {}
    /\ tState = [t \in Transports |-> "disconnected"]
    /\ jState = [j \in Jobs |-> "idle"]

\* the public operations can be called at any time, with any argument
Connect(t) ==
    /\ t \in Transports
    /\ Commit(connect(Cur, t))

Disconnect(error) ==
    /\ error \in BOOLEAN
    /\ Commit(disconnect(Cur, error))

\* can_process is the answer of job.can_process(self)
Process(j, can_process) ==
    /\ j \in Jobs
    /\ Commit(process(Cur, j, can_process))

PauseProcessing ==
    /\ TRUE
    /\ Commit(pause_processing(Cur))

ResumeProcessing ==
    /\ TRUE
    /\ Commit(resume_processing(Cur))

\* sync: the job delivers its termination callback inside job.cancel
CancelProcessing(error, sync) ==
    /\ error \in BOOLEAN
    /\ Commit(cancel_processing(Cur, error, sync))

TransportConnected(t) == MayConnect(t) /\ Commit(transport_connected(Cur, t))

TransportDisconnected(t, error) ==
    MayDrop(t) /\ Commit(transport_lost(Cur, t, error))

JobStarted(j) == MayStart(j) /\ Commit(job_started(Cur, j))

JobDone(j) == MayEnd(j) /\ Commit(job_done(Cur, j))

JobCancelled(j) == MayEnd(j) /\ Commit(job_cancelled(Cur, j))

JobFailed(j) == MayEnd(j) /\ Commit(job_failed(Cur, j))

Next ==
    \/ \E t \in Transports : Connect(t)
    \/ \E error \in BOOLEAN : Disconnect(error)
    \/ \E j \in Jobs, can_process \in BOOLEAN : Process(j, can_process)
    \/ PauseProcessing
    \/ ResumeProcessing
    \/ \E error \in BOOLEAN, sync \in BOOLEAN : CancelProcessing(error, sync)
    \/ \E t \in Transports : TransportConnected(t)
    \/ \E t \in Transports, error \in TransportErrors :
           TransportDisconnected(t, error)
    \/ \E j \in Jobs : JobStarted(j)
    \/ \E j \in Jobs : JobDone(j)
    \/ \E j \in Jobs : JobCancelled(j)
    \/ \E j \in Jobs : JobFailed(j)

Spec == Init /\ [][Next]_vars

\* the values the program state ranges over
TypeOK ==
    /\ state \in ProtocolState
    /\ job \in Jobs \cup {None}
    /\ transport \in Transports \cup {None}
    /\ tReg \subseteq Transports
    /\ jReg \subseteq Jobs
    /\ tState \in [Transports -> TransportState]
    /\ jState \in [Jobs -> JobState]

(* --------------------------- reading a call --------------------------- *)

Terminal == {DISCONNECTED, DISCONNECTED_WITH_ERROR}

IsStateNotification(e) == e.k = "on_protocol_state"

\* the (old, new) pairs of the on_protocol_state notifications, in order
Changes(m) ==
    LET ns == SelectSeq(m.events, IsStateNotification)
    IN  [i \in DOMAIN ns |-> <<ns[i].a, ns[i].b>>]

\* the positions in the trace of the entries of kind k
Positions(m, k) == {i \in DOMAIN m.events : m.events[i].k = k}

\* the call did nothing: the program state is as before, the trace empty
NoEffect(m) ==
    /\ m.state = state
    /\ m.job = job
    /\ m.transport = transport
    /\ m.tReg = tReg
    /\ m.jReg = jReg
    /\ m.tState = tState
    /\ m.jState = jState
    /\ m.events = << >>

\* the machine a following call starts from
Then(m) == [m EXCEPT !.events = << >>, !.result = OK]

\* the machines that the calls possible in the current state produce
Outcomes ==
    {connect(Cur, t) : t \in Transports}
        \cup {disconnect(Cur, e) : e \in BOOLEAN}
        \cup {process(Cur, j, c) : j \in Jobs, c \in BOOLEAN}
        \cup {pause_processing(Cur), resume_processing(Cur)}
        \cup {cancel_processing(Cur, e, s) : e \in BOOLEAN, s \in BOOLEAN}
        \cup {transport_connected(Cur, t) :
                  t \in {u \in Transports : MayConnect(u)}}
        \cup {transport_lost(Cur, t, e) :
                  t \in {u \in Transports : MayDrop(u)}, e \in TransportErrors}
        \cup {job_started(Cur, j) : j \in {i \in Jobs : MayStart(i)}}
        \cup {job_done(Cur, j) : j \in {i \in Jobs : MayEnd(i)}}
        \cup {job_cancelled(Cur, j) : j \in {i \in Jobs : MayEnd(i)}}
        \cup {job_failed(Cur, j) : j \in {i \in Jobs : MayEnd(i)}}

(* ------------------------------- claims ------------------------------- *)

\* C1: connect(transport) in any state other than Disconnected and
\* DisconnectedWithError fails with AlreadyConnected and changes nothing: the
\* state stays, the offered transport is not bound, the protocol is not
\* registered with it, and no transport connect is requested.
C1_ConnectRejected ==
    state \notin Terminal =>
        \A t \in Transports :
            LET m == connect(Cur, t)
            IN  /\ m.result = AlreadyConnected
                /\ NoEffect(m)

C1_Witness ==
    /\ state = PRINTING
    /\ transport \in tReg
    /\ \E t \in Transports :
           /\ t # transport
           /\ tState[t] = "disconnected"
           /\ connect(Cur, t).result = AlreadyConnected
           /\ connect(Cur, t).transport # t
           /\ t \notin connect(Cur, t).tReg

\* C2: disconnect() in Disconnected, DisconnectedWithError or Disconnecting
\* fails with NotConnected and changes nothing; a disconnect() right after a
\* successful disconnect() fails with NotConnected.
C2_DisconnectRejected ==
    \A e \in BOOLEAN :
        LET m == disconnect(Cur, e)
        IN  /\ state \in Terminal \cup {DISCONNECTING} =>
                   /\ m.result = NotConnected
                   /\ NoEffect(m)
            /\ m.result = OK =>
                   \A e2 \in BOOLEAN :
                       LET m2 == disconnect(Then(m), e2)
                       IN  /\ m2.result = NotConnected
                           /\ m2 = Raise(Then(m), NotConnected)

C2_Witness ==
    /\ state = CONNECTED
    /\ transport \in tReg
    /\ tState[transport] = "connected"
    /\ disconnect(Cur, TRUE).result = OK
    /\ disconnect(Cur, TRUE).state = DISCONNECTED_WITH_ERROR
    /\ disconnect(Then(disconnect(Cur, TRUE)), FALSE).result = NotConnected

\* C3: disconnect(error) in any state S outside Disconnected,
\* DisconnectedWithError and Disconnecting returns normally having done, in
\* this order: state S -> Disconnecting, unregister from the transport, a
\* transport disconnect exactly when the transport is connected, state
\* Disconnecting -> DisconnectedWithError (error) or Disconnected; it never
\* ends with the state still Disconnecting.
C3_DisconnectTeardown ==
    state \notin Terminal \cup {DISCONNECTING} =>
        \A e \in BOOLEAN :
            LET m == disconnect(Cur, e)
                final == IF e THEN DISCONNECTED_WITH_ERROR ELSE DISCONNECTED
                notes == Positions(m, "on_protocol_state")
                unreg == Positions(m, "transport.unregister_listener")
                disc == Positions(m, "transport.disconnect")
            IN  /\ m.result = OK
                /\ m.state = final
                /\ Changes(m) =
                       << <<state, DISCONNECTING>>, <<DISCONNECTING, final>> >>
                /\ Cardinality(unreg) = 1
                /\ \A u \in unreg :
                       /\ m.events[u].n = transport
                       /\ \E i \in notes : i < u
                       /\ \E i \in notes : u < i
                /\ transport \notin m.tReg
                /\ (disc # {}) = (tState[transport] = "connected")
                /\ \A d \in disc :
                       /\ m.events[d].n = transport
                       /\ \A u \in unreg : u < d
                       /\ \E i \in notes : d < i

\* C4: process(job) with a job whose can_process answers false fails with an
\* error and has no effect: the job is not bound, the protocol is not
\* registered as its listener, job.process is not invoked, the state stays.
C4_IncompatibleJobRejected ==
    \A j \in Jobs :
        LET m == process(Cur, j, FALSE)
        IN  /\ m.result = IncompatibleJob
            /\ NoEffect(m)

C4_Witness ==
    /\ state = CONNECTED
    /\ transport \in tReg
    /\ \E j \in Jobs :
           /\ j # job
           /\ j \notin jReg
           /\ process(Cur, j, FALSE).result = IncompatibleJob
           /\ process(Cur, j, FALSE).job # j
           /\ j \notin process(Cur, j, FALSE).jReg

C6_JobLifecycle ==
    /\ state = CONNECTED =>
           \A j \in Jobs :
               LET m1 == process(Cur, j, TRUE)
                   m2 == job_started(Then(m1), j)
                   m3 == job_done(Then(m2), j)
               IN  /\ m1.result = OK
                   /\ m1.state = CONNECTED
                   /\ m1.job = j
                   /\ m1.jReg = jReg \cup {j}
                   /\ m1.jState[j] = "queued"
                   /\ m2.result = OK
                   /\ m2.state = PRINTING
                   /\ Changes(m2) = << <<CONNECTED, PRINTING>> >>
                   /\ j \in m2.jReg
                   /\ m3.result = OK
                   /\ m3.state = CONNECTED
                   /\ Changes(m3) = << <<PRINTING, CONNECTED>> >>
                   /\ m3.jReg = jReg \ {j}
                   /\ m3 = job_cancelled(Then(m2), j)
                   /\ m3 = job_failed(Then(m2), j)
    /\ \A j \in Jobs :
           /\ MayStart(j) =>
                  LET m == job_started(Cur, j)
                  IN  /\ m.result = OK
                      /\ m.state = PRINTING
                      /\ m.jReg = jReg
           /\ (MayEnd(j) /\ j = job) =>
                  LET m == job_done(Cur, j)
                  IN  /\ m.result = OK
                      /\ m.state = CONNECTED
                      /\ m.jReg = jReg \ {j}
                      /\ m.transport = transport
                      /\ m.tReg = tReg
                      /\ m = job_cancelled(Cur, j)
                      /\ m = job_failed(Cur, j)

C6_Witness ==
    /\ state = PRINTING
    /\ transport \in tReg
    /\ job \in jReg
    /\ jState[job] = "running"
    /\ job_failed(Cur, job).state = CONNECTED
    /\ job \notin job_failed(Cur, job).jReg
    /\ Changes(job_failed(Cur, job)) = << <<PRINTING, CONNECTED>> >>

\* C7 as stated: cancel_processing(error) in Printing or Paused with an
\* active job requests job.cancel with that error flag and returns with the
\* state Connected and the protocol no longer registered as the job's
\* listener, whether or not the termination callback was delivered.
C7_CancelUnregisters ==
    (job # None /\ state \in {PRINTING, PAUSED}) =>
        \A e \in BOOLEAN, s \in BOOLEAN :
            LET m == cancel_processing(Cur, e, s)
            IN  /\ \E i \in Positions(m, "job.cancel") :
                       /\ m.events[i].n = job
                       /\ m.events[i].f = e
                /\ m.state = CONNECTED
                /\ job \notin m.jReg

\* C7 amended: cancel_processing(error) in Printing or Paused with an active
\* job requests job.cancel once, first of all, with that error flag, and
\* returns with the state Connected; the protocol is unregistered from the
\* job only when the job delivered its termination callback during the call,
\* otherwise every listener registration is as before the call.
C7_CancelForcesConnected ==
    (job # None /\ state \in {PRINTING, PAUSED}) =>
        \A e \in BOOLEAN, s \in BOOLEAN :
            LET m == cancel_processing(Cur, e, s)
            IN  /\ m.result = OK
                /\ Positions(m, "job.cancel") = {1}
                /\ m.events[1].n = job
                /\ m.events[1].f = e
                /\ m.state = CONNECTED
                /\ Changes(m) = << <<state, CONNECTED>> >>
                /\ m.jReg = IF s /\ MayEnd(job) THEN jReg \ {job} ELSE jReg
                /\ m.job = job
                /\ m.tReg = tReg

C7_Witness ==
    /\ state = PAUSED
    /\ job \in jReg
    /\ jState[job] = "running"
    /\ cancel_processing(Cur, TRUE, FALSE).state = CONNECTED
    /\ job \in cancel_processing(Cur, TRUE, FALSE).jReg
    /\ job \notin cancel_processing(Cur, TRUE, TRUE).jReg

\* C8: on_protocol_state is delivered once per change of the state value and
\* never with old = new: the notifications of every call chain from the
\* state before the call to the state after it, so over any run they chain
\* from the initial Disconnected.
C8_NotificationsChain ==
    /\ state = DISCONNECTED
    /\ [](\A m \in Outcomes :
              LET ch == Changes(m)
              IN  /\ \A i \in DOMAIN ch : ch[i][1] # ch[i][2]
                  /\ \A i \in DOMAIN ch : i > 1 => ch[i][1] = ch[i - 1][2]
                  /\ ch = << >> => m.state = state
                  /\ ch # << >> => /\ ch[1][1] = state
                                   /\ ch[Len(ch)][2] = m.state)

C8_Witness ==
    /\ state = PAUSED
    /\ transport \in tReg
    /\ Changes(disconnect(Cur, TRUE)) =
           << <<PAUSED, DISCONNECTING>>,
              <<DISCONNECTING, DISCONNECTED_WITH_ERROR>> >>
    /\ Changes(resume_processing(Cur)) = << <<PAUSED, PRINTING>> >>
    /\ Changes(pause_processing(Cur)) = << >>

\* C9: pause_processing changes the state only from Printing with a job
\* bound, to Paused; resume_processing only from Paused with a job bound, to
\* Printing; otherwise each does nothing at all; neither touches the bound
\* job, the bound transport or a listener registration; pause then resume
\* from Printing ends in Printing.
C9_PauseResume ==
    LET p == pause_processing(Cur)
        r == resume_processing(Cur)
        Frame(m) ==
            /\ m.result = OK
            /\ m.job = job
            /\ m.transport = transport
            /\ m.tReg = tReg
            /\ m.jReg = jReg
            /\ m.tState = tState
            /\ m.jState = jState
    IN  /\ Frame(p)
        /\ Frame(r)
        /\ IF job # None /\ state = PRINTING
           THEN /\ p.state = PAUSED
                /\ Changes(p) = << <<PRINTING, PAUSED>> >>
                /\ resume_processing(Then(p)).state = PRINTING
           ELSE NoEffect(p)
        /\ IF job # None /\ state = PAUSED
           THEN /\ r.state = PRINTING
                /\ Changes(r) = << <<PAUSED, PRINTING>> >>
           ELSE NoEffect(r)

C9_Witness ==
    /\ state = PRINTING
    /\ job \in jReg
    /\ transport \in tReg
    /\ pause_processing(Cur).state = PAUSED
    /\ resume_processing(Then(pause_processing(Cur))).state = PRINTING
    /\ resume_processing(Cur).events = << >>

Interleavings(m, j) ==
    {m} \cup {Then(disconnect(m, e)) : e \in BOOLEAN}
        \cup {Then(job_started(Then(process(m, i, TRUE)), i)) :
                  i \in Jobs \ {j}}

\* the termination callbacks job j can deliver to the protocol in machine m
Terminations(m, j) == {job_done(m, j), job_cancelled(m, j), job_failed(m, j)}

\* C11: after cancel_processing has forced the state to Connected, the
\* termination callback of the cancelled job, arriving later and after
\* whatever ran in between (a disconnect, a new job started), is absorbed:
\* it raises nothing, changes no state, notifies no on_protocol_state and
\* leaves the registration with every other job as it was.
C11_LateCallbackAbsorbed ==
    (/\ state \in {PRINTING, PAUSED}
     /\ transport \in tReg
     /\ jReg = {job}
     /\ MayEnd(job)) =>
        \A e \in BOOLEAN :
            \A m2 \in Interleavings(Then(cancel_processing(Cur, e, FALSE)),
                                    job) :
                \A m3 \in Terminations(m2, job) :
                    /\ m3.result = OK
                    /\ m3.state = m2.state
                    /\ Changes(m3) = << >>
                    /\ m3.jReg \ {job} = m2.jReg \ {job}

\* C12: process(job) binds a job, and the job's start then enters Printing,
\* only when the state at the time of the process call is Connected.
C12_ProcessOnlyWhenConnected ==
    \A j \in Jobs :
        LET m1 == process(Cur, j, TRUE)
            m2 == job_started(Then(m1), j)
        IN  (/\ m1.result = OK
             /\ m1.job = j
             /\ j \in m1.jReg
             /\ m2.state = PRINTING
             /\ Changes(m2) = << <<state, PRINTING>> >>) =>
                state = CONNECTED

\* C13: connect(transport) called in Disconnected or DisconnectedWithError,
\* also after the transport reported an error disconnect, returns normally
\* with the transport bound, the protocol registered with it and the state
\* Connecting; a log notification precedes the state change; and the
\* transport is asked to connect exactly when it is neither connecting nor
\* connected.
C13_ConnectSucceeds ==
    state \in Terminal =>
        \A t \in Transports :
            LET m == connect(Cur, t)
            IN  /\ m.result = OK
                /\ m.transport = t
                /\ t \in m.tReg
                /\ m.state = CONNECTING
                /\ Changes(m) = << <<state, CONNECTING>> >>
                /\ \A i \in Positions(m, "on_protocol_log:connecting") :
                       \A k \in Positions(m, "on_protocol_state") : i < k
                /\ Positions(m, "on_protocol_log:connecting") # {}
                /\ (Positions(m, "transport.connect") # {}) <=>
                       (tState[t] \notin {"connecting", "connected"})

\* C14: at most one job is active: the protocol is registered as listener
\* with at most one job, and that job is the bound one; a second
\* process(job) does not bind another job while one is still active.
C14_AtMostOneJob ==
    /\ Cardinality(jReg) <= 1
    /\ jReg \subseteq {job}
    /\ \A j \in jReg :
           MayEnd(j) =>
               \A i \in Jobs \ {j} :
                   LET m == process(Cur, i, TRUE)
                   IN  m.job = j /\ m.jReg = jReg

\* C15: whenever the state is Disconnected or DisconnectedWithError no job
\* and no transport is bound: the protocol is registered as listener with
\* no job and with no transport, also after a disconnect during a job.
C15_TerminalUnbound ==
    /\ state \in Terminal =>
           /\ tReg = {}
           /\ jReg = {}
    /\ (state \in {PRINTING, PAUSED} /\ transport \in tReg) =>
           \A e \in BOOLEAN :
               LET m == disconnect(Cur, e)
               IN  /\ m.state \in Terminal
                   /\ m.tReg = {}
                   /\ m.jReg = {}

\* C16: whenever the state is Connecting, Connected, Printing or Paused the
\* protocol is registered as listener with exactly one transport, the bound
\* one; no sequence of calls reaches these states without it.
C16_TransportRegistered ==
    state \in {CONNECTING, CONNECTED, PRINTING, PAUSED} =>
        /\ transport # None
        /\ tReg = {transport}

\* C17: cancel_processing moves the state to Connected only when it is
\* called in Printing or Paused; called in any other state it asks no job
\* to cancel and leaves the state as it is.
C17_CancelOnlyWhenProcessing ==
    state \notin {PRINTING, PAUSED} =>
        \A e \in BOOLEAN, s \in BOOLEAN :
            LET m == cancel_processing(Cur, e, s)
            IN  /\ m.result = OK
                /\ Positions(m, "job.cancel") = {}
                /\ m.state = state
                /\ Changes(m) = << >>

\* C18: when job J signals that it is done, cancelled or failed, the
\* protocol unregisters from J, the job that signalled, before the state
\* change to Connected is made and notified.
C18_UnregistersSignallingJob ==
    \A j \in Jobs :
        MayEnd(j) =>
            \A m \in Terminations(Cur, j) :
                /\ m.result = OK
                /\ j \notin m.jReg
                /\ \E i \in Positions(m, "job.unregister_listener") :
                       /\ m.events[i].n = j
                       /\ m.events[i].st = state
                       /\ \A k \in Positions(m, "on_protocol_state") : i < k

\* what the observers and the hook see of one change from old to new, in
\* order, each entry stamped with the state stored when it was made
ChangeTrace(old, new) ==
    LET e(k) == [k |-> k, a |-> old, b |-> new, n |-> None, f |-> FALSE,
                 st |-> new]
    IN  (IF new \in DefinedHooks THEN << e("hook") >> ELSE << >>)
            \o << e("on_protocol_log:state_changed"), e("on_protocol_state") >>

\* entry k of the trace of m is entry e but for its kind, which is kind
IsEntry(m, k, e, kind) ==
    /\ k \in DOMAIN m.events
    /\ m.events[k] = [e EXCEPT !.k = kind]

\* the hook, the log and the notification in the trace of m come only as the
\* parts of one change to a new state, in this order and with the new state
\* stored
InChangeOrder(m) ==
    \A k \in DOMAIN m.events :
        LET e == m.events[k]
        IN  /\ e.k = "hook" =>
                   IsEntry(m, k + 1, e, "on_protocol_log:state_changed")
            /\ e.k = "on_protocol_log:state_changed" =>
                   IsEntry(m, k + 1, e, "on_protocol_state")
            /\ e.k = "on_protocol_state" =>
                   /\ e.a # e.b
                   /\ e.st = e.b
                   /\ IsEntry(m, k - 1, e, "on_protocol_log:state_changed")
                   /\ e.b \in DefinedHooks => IsEntry(m, k - 2, e, "hook")
                   /\ e.b \notin DefinedHooks =>
                          ~IsEntry(m, k - 2, e, "hook")

\* C19: every state change to a new state different from the old one runs,
\* in this order, the hook of the new state when one is defined, with the
\* old state, then the on_protocol_log notification of the transition, then
\* on_protocol_state(old, new), all of them with the new state already
\* stored; setting the state it already has does none of this.  Stated of
\* the setter for every target state, and of disconnect, the call that
\* changes the state twice with its teardown in between.
C19_ChangeOrder ==
    /\ \A new_state \in ProtocolState :
           LET m == state_setter(Cur, new_state)
           IN  IF new_state = state
               THEN m = Cur
               ELSE /\ m.state = new_state
                    /\ m.events = ChangeTrace(state, new_state)
    /\ \A e \in BOOLEAN : InChangeOrder(disconnect(Cur, e))

C19_Witness ==
    /\ state = CONNECTING
    /\ transport \in tReg
    /\ MayConnect(transport)
    /\ LET m == transport_connected(Cur, transport)
       IN  /\ Len(m.events) = 3
           /\ m.events[1].k = "hook"
           /\ m.events[2].k = "on_protocol_log:state_changed"
           /\ m.events[3].k = "on_protocol_state"
           /\ \A i \in 1..3 : m.events[i].st = CONNECTED
    /\ Len(state_setter(Cur, PRINTING).events) = 2
    /\ state_setter(Cur, CONNECTING).events = << >>

\* the states the protocol's own operations and callbacks move between
OwnStates ==
    {DISCONNECTED, DISCONNECTED_WITH_ERROR, CONNECTING, CONNECTED,
     DISCONNECTING, PRINTING, PAUSED}

\* C20: the protocol starts in Disconnected, and its state is always one of
\* Disconnected, DisconnectedWithError, Connecting, Connected,
\* Disconnecting, Printing and Paused, also in the middle of every call;
\* Pausing, Cancelling and Error are never entered.
C20_OwnStatesOnly ==
    /\ state = DISCONNECTED
    /\ [](/\ state \in OwnStates
          /\ \A m \in Outcomes :
                 /\ m.state \in OwnStates
                 /\ \A i \in DOMAIN m.events : m.events[i].st \in OwnStates)

C20_Witness ==
    /\ state = PAUSED
    /\ transport \in tReg
    /\ jReg = {job}
    /\ resume_processing(Cur).state = PRINTING
    /\ disconnect(Cur, TRUE).state = DISCONNECTED_WITH_ERROR
    /\ disconnect(Cur, TRUE).events[1].st = DISCONNECTING

=============================================================================
